---- MODULE Spec2Model ----
(***************************************************************************)
(* Model of attachment_s3/models/ir_attachment.py: the S3 storage routing  *)
(* of ir.attachment (read / write / delete of a store_fname), the          *)
(* placement policy, and the migration of the local filestore to S3.       *)
(*                                                                         *)
(* Strings are sequences of tokens (a store_fname is built and parsed      *)
(* token by token); a Python None / False / '' of a string field is the    *)
(* empty sequence, which is what the code's truth tests see.               *)
(***************************************************************************)
EXTENDS Integers, Sequences, FiniteSets, TLC

VARIABLES
    env,      \* os.environ and the ir_attachment.location parameter
    s3,       \* the object storage: bucket name -> bucket (key -> bytes)
    disk,     \* the local filestore: full path -> bytes
    db,       \* committed ir_attachment table: id -> row
    own,      \* per cursor: the uncommitted row versions it has written
    lock,     \* row-level exclusive lock: id -> cursor holding it (0: free)
    tx,       \* per cursor: transaction status
    hooks,    \* per cursor: callbacks registered with cr.after('commit', ...)
    mig,      \* per calling cursor: the state of its _force_storage_s3 pass
    io,       \* outcome of the last handler that ran
    nops      \* number of handler invocations so far (bounds the exploration)

vars == <<env, s3, disk, db, own, lock, tx, hooks, mig, io, nops>>

-----------------------------------------------------------------------------
(* Bounds of the exploration. *)

\* number of distinct non-empty payloads (the empty payload is always there)
NumBytes == 1
\* handler invocations explored in one behaviour of the sequential model
MaxSeqOps == 2
\* handler invocations explored in one behaviour of the concurrent model
MaxOps == 3
\* the writes of attachments SpecRow makes
MaxRowOps == 2
\* rows of ir_attachment
NumRows == 2

-----------------------------------------------------------------------------
(* Values. *)

None == <<>>
NoneStr == "<None>"
NoKey == <<-1>>
NoFile == <<-2>>
NoErr == ""

Ids == 1..NumRows
\* the cursors of the callers, and the cursor that do_in_new_env(new_cr=True)
\* opens for caller t
Txns == {1, 2}
NewCr(t) == t + 2
Cursors == Txns \cup {NewCr(t) : t \in Txns}

Bytes == {<<>>} \cup {<<i>> : i \in 1..NumBytes}
BucketNames == {"acme", "other"}

\* base64: a conversion of every byte, the empty string to the empty string
b64encode(bin_data) == [i \in DOMAIN bin_data |-> bin_data[i] + 64]
b64decode(value) == [i \in DOMAIN value |-> value[i] - 64]
Values == {b64encode(b) : b \in Bytes}

\* the sha1 hex digest of the payload: injective on the payloads explored
Digests == <<"356a19", "da4b92", "77de68", "1b6453", "ac3478">>
_compute_checksum(bin_data) ==
    IF bin_data = <<>> THEN "da39a3" ELSE Digests[bin_data[1]]
Keys == {_compute_checksum(b) : b \in Bytes}

\* a bucket of the object storage: whether it exists, and its objects
NoBucket == [exists |-> FALSE, keys |-> [k \in Keys |-> NoKey]]
EmptyBucket == [exists |-> TRUE, keys |-> [k \in Keys |-> NoKey]]

\* 's3://%s/%s' % (bucket.name, key)
S3Name(bucket_name, key) == <<"s3://", bucket_name, "/", key>>
\* fname.startswith('s3://')
IsS3(fname) == Len(fname) >= 1 /\ fname[1] = "s3://"
\* S3Uri(fname).bucket() and .item()
S3Uri(fname) == [bucket |-> fname[2], item |-> fname[4]]

\* the default backend's content-addressed name (sha[:2] + '/' + sha) and
\* its place in the filestore
LocalName(key) == <<"sha[:2]", "/", key>>
_full_path(fname) == <<"filestore/">> \o fname
LocalPaths == {_full_path(LocalName(k)) : k \in Keys}

S3Names == {S3Name(b, k) : b \in BucketNames, k \in Keys}
LocalNames == {LocalName(k) : k \in Keys}

\* a backend failure is an input of a handler: the step at which the object
\* storage answers with an error (or cannot be reached)
Faults == {"none", "connect", "bucket", "get_key", "transfer"}

-----------------------------------------------------------------------------
(* The object storage client. *)

\* what a call did: the exception it raised (NoErr: none), what it returned,
\* the object storage it leaves, its log entries, the buckets it looked up
Outcome(raise, ret, store, log, conn) ==
    [raise |-> raise, ret |-> ret, s3 |-> store, log |-> log, conn |-> conn]

\* (mutant of HasSettings: the secret key is not required)
HasSettingsButSecret(e, bucket_name) ==
    e.AWS_ACCESS_KEY_ID /\ bucket_name # NoneStr

\* access_key and secret_key and bucket_name
HasSettings(e, bucket_name) ==
    e.AWS_ACCESS_KEY_ID /\ e.AWS_SECRET_ACCESS_KEY /\ bucket_name # NoneStr

\* _get_s3_bucket(name): ret is the bucket's name, conn the buckets looked up
_get_s3_bucket(e, store, name, fault) ==
    LET bucket_name == IF name # NoneStr /\ name # "" THEN name
                       ELSE e.AWS_BUCKETNAME
    IN  IF ~HasSettings(e, bucket_name)
        THEN Outcome("UserError", NoneStr, store, <<>>, <<>>)
        ELSE IF fault = "connect"
        THEN Outcome("UserError", NoneStr, store, <<"exception">>, <<>>)
        ELSE IF fault = "bucket"
        \* conn.lookup swallows the error and returns None; create_bucket
        \* then raises
        THEN Outcome("S3ResponseError", NoneStr, store, <<>>, <<bucket_name>>)
        ELSE IF store[bucket_name].exists
        THEN Outcome(NoErr, bucket_name, store, <<>>, <<bucket_name>>)
        ELSE Outcome(NoErr, bucket_name,
                     [store EXCEPT ![bucket_name] = EmptyBucket],
                     <<>>, <<bucket_name>>)

\* (mutant of get_contents_b64: the base64 encoding is forgotten)
get_contents_raw(filekey) == filekey

\* base64.b64encode(filekey.get_contents_as_string())
get_contents_b64(filekey) == b64encode(filekey)

\* _file_read_s3(fname)
_file_read_s3(e, store, fname, fault) ==
    LET s3uri == S3Uri(fname)
        g == _get_s3_bucket(e, store, s3uri.bucket, fault)
    IN  IF g.raise = "UserError"
        THEN Outcome(NoErr, <<>>, g.s3, g.log \o <<"exception">>, g.conn)
        ELSE IF g.raise # NoErr
        THEN Outcome(g.raise, <<>>, g.s3, g.log, g.conn)
        ELSE IF fault = "get_key"
        THEN Outcome("S3ResponseError", <<>>, g.s3, g.log, g.conn)
        ELSE LET filekey == g.s3[g.ret].keys[s3uri.item]
             IN  IF filekey # NoKey
                 THEN IF fault = "transfer"
                      THEN Outcome("S3ResponseError", <<>>, g.s3, g.log, g.conn)
                      ELSE Outcome(NoErr, get_contents_b64(filekey), g.s3, g.log,
                                   g.conn)
                 ELSE Outcome(NoErr, <<>>, g.s3, g.log \o <<"info">>, g.conn)

-----------------------------------------------------------------------------
(* The default (filesystem) backend of ir.attachment, which the S3 model   *)
(* calls through super().                                                  *)

\* what a storage handler did: Outcome, plus the filestore it leaves and the
\* keys it uploaded (put) and deleted (del)
Effect(raise, ret, store, dsk, log, conn, put, del) ==
    [raise |-> raise, ret |-> ret, s3 |-> store, disk |-> dsk, log |-> log,
     conn |-> conn, put |-> put, del |-> del]

\* super()._file_read(fname): the file's content, '' when it cannot be read
super_file_read(dsk, fname) ==
    IF dsk[_full_path(fname)] # NoFile
    THEN b64encode(dsk[_full_path(fname)])
    ELSE <<>>

\* super()._file_write(value, checksum): writes the file named after the
\* checksum unless it is there already
super_file_write(dsk, value) ==
    LET bin_value == b64decode(value)
        fname == LocalName(_compute_checksum(bin_value))
    IN  [fname |-> fname,
         disk |-> IF dsk[_full_path(fname)] = NoFile
                  THEN [dsk EXCEPT ![_full_path(fname)] = bin_value]
                  ELSE dsk]

-----------------------------------------------------------------------------
(* IrAttachment: read, write and delete of a store_fname. *)

\* _file_read(fname)
_file_read(e, store, dsk, fname, fault) ==
    IF IsS3(fname)
    THEN LET r == _file_read_s3(e, store, fname, fault)
         IN  Effect(r.raise, r.ret, r.s3, dsk, r.log, r.conn, <<>>, <<>>)
    ELSE Effect(NoErr, super_file_read(dsk, fname), store, dsk,
                <<>>, <<>>, <<>>, <<>>)

\* _file_write(value, checksum): ret is the store_fname
_file_write(e, store, dsk, value, fault) ==
    IF e.storage = "s3"
    THEN LET g == _get_s3_bucket(e, store, NoneStr, fault)
             bin_data == b64decode(value)
             key == _compute_checksum(bin_data)
             filename == S3Name(g.ret, key)
         IN  IF g.raise # NoErr
             THEN Effect(g.raise, <<>>, g.s3, dsk, g.log, g.conn, <<>>, <<>>)
             ELSE IF fault = "get_key"
             THEN Effect("S3ResponseError", <<>>, g.s3, dsk, g.log, g.conn,
                         <<>>, <<>>)
             ELSE IF fault = "transfer"
             THEN Effect("UserError", <<>>, g.s3, dsk,
                         g.log \o <<"exception">>, g.conn, <<>>, <<>>)
             ELSE Effect(NoErr, filename,
                         [g.s3 EXCEPT ![g.ret].keys[key] = bin_data],
                         dsk, g.log, g.conn, <<key>>, <<>>)
    ELSE LET w == super_file_write(dsk, value)
         IN  Effect(NoErr, w.fname, store, w.disk, <<>>, <<>>, <<>>, <<>>)

\* SELECT COUNT(*) FROM ir_attachment WHERE store_fname = fname, as the
\* cursor sees the table
CountRefs(view, fname) ==
    Cardinality({id \in DOMAIN view :
                    view[id].state = "live" /\ view[id].store_fname = fname})

\* (mutant of OnConfiguredBucket: any bucket the name carries is deleted from)
OnAnyBucket(e, bucket_name) == TRUE

\* bucket_name == os.environ.get('AWS_BUCKETNAME')
OnConfiguredBucket(e, bucket_name) == bucket_name = e.AWS_BUCKETNAME

\* (mutant of ShouldDelete: the rows that hold the name are not counted)
ShouldDeleteUncounted(count, filekey) == filekey # NoKey

\* (mutant of ShouldDelete: the key is not tested to exist)
ShouldDeleteUnchecked(count, filekey) == count = 0

\* if not count and filekey
ShouldDelete(count, filekey) == count = 0 /\ filekey # NoKey

\* _file_delete(fname)
_file_delete(e, store, dsk, view, fname, fault) ==
    IF IsS3(fname)
    THEN LET count == CountRefs(view, fname)
             s3uri == S3Uri(fname)
             bucket_name == s3uri.bucket
             item_name == s3uri.item
         IN  IF OnConfiguredBucket(e, bucket_name)
             THEN LET g == _get_s3_bucket(e, store, NoneStr, fault)
                  IN  IF g.raise # NoErr
                      THEN Effect(g.raise, <<>>, g.s3, dsk, g.log, g.conn,
                                  <<>>, <<>>)
                      ELSE IF fault = "get_key"
                      THEN Effect("S3ResponseError", <<>>, g.s3, dsk, g.log,
                                  g.conn, <<>>, <<>>)
                      ELSE IF ShouldDelete(count,
                                           g.s3[g.ret].keys[item_name])
                      THEN IF g.s3[g.ret].keys[item_name] = NoKey
                           \* filekey.delete() of None
                           THEN Effect("AttributeError", <<>>, g.s3, dsk,
                                       g.log, g.conn, <<>>, <<>>)
                           ELSE IF fault = "transfer"
                           THEN Effect(NoErr, <<>>, g.s3, dsk,
                                       g.log \o <<"exception">>, g.conn,
                                       <<>>, <<>>)
                           ELSE Effect(NoErr, <<>>,
                                       [g.s3 EXCEPT
                                          ![g.ret].keys[item_name] = NoKey],
                                       dsk, g.log \o <<"info">>, g.conn,
                                       <<>>, <<item_name>>)
                      ELSE Effect(NoErr, <<>>, g.s3, dsk, g.log, g.conn,
                                  <<>>, <<>>)
             ELSE Effect(NoErr, <<>>, store, dsk, <<>>, <<>>, <<>>, <<>>)
    \* super()._file_delete(fname) only marks the file for the filestore's
    \* garbage collection
    ELSE Effect(NoErr, <<>>, store, dsk, <<"gc">>, <<>>, <<>>, <<>>)

-----------------------------------------------------------------------------
(* IrAttachment: the rows. *)

\* a row of ir_attachment; state is "unborn" before its INSERT and "deleted"
\* after its DELETE (ids are never reused)
Row(fname, db_datas, res_model, res_field) ==
    [state |-> "live", store_fname |-> fname, db_datas |-> db_datas,
     res_model |-> res_model, res_field |-> res_field]
Unborn == [state |-> "unborn", store_fname |-> <<>>, db_datas |-> <<>>,
           res_model |-> "", res_field |-> ""]
Deleted(row) == [row EXCEPT !.state = "deleted"]

\* what a handler working on rows did: Effect, plus the table as its cursor
\* sees it afterwards
RowEffect(eff, view) ==
    [raise |-> eff.raise, ret |-> eff.ret, s3 |-> eff.s3, disk |-> eff.disk,
     log |-> eff.log, conn |-> eff.conn, put |-> eff.put, del |-> eff.del,
     view |-> view]

\* the effects of two calls made one after the other
AndThen(a, b) ==
    Effect(b.raise, b.ret, b.s3, b.disk, a.log \o b.log, a.conn \o b.conn,
           a.put \o b.put, a.del \o b.del)

NoEffect(store, dsk) == Effect(NoErr, <<>>, store, dsk, <<>>, <<>>, <<>>, <<>>)

local_fields == {"image_small", "image_medium", "web_icon_data"}

\* (mutant of _store_in_db_when_s3: the model of the row is not looked at)
StoreInDbByFieldOnly(row) ==
    row.res_field # "" /\ row.res_field \in local_fields

\* _store_in_db_when_s3()
_store_in_db_when_s3(row) ==
    IF row.res_model = "ir.ui.view" THEN TRUE
    ELSE IF row.res_field # "" /\ row.res_field \in local_fields THEN TRUE
    ELSE FALSE

\* _compute_datas() through _data_get: the file's content when the row has a
\* store_fname, db_datas otherwise
_compute_datas(e, store, dsk, row, fault) ==
    IF row.store_fname # <<>>
    THEN _file_read(e, store, dsk, row.store_fname, fault)
    ELSE Effect(NoErr, row.db_datas, store, dsk, <<>>, <<>>, <<>>, <<>>)

\* super()._data_set('datas', value): an empty value is not stored; else the
\* value goes to _file_write (or to db_datas when the location is 'db'), the
\* row is updated and its former file goes to _file_delete
_data_set(e, store, dsk, view, id, value, wfault, dfault) ==
    IF value = <<>>
    THEN RowEffect(NoEffect(store, dsk), view)
    ELSE LET w == IF e.storage # "db"
                  THEN _file_write(e, store, dsk, value, wfault)
                  ELSE NoEffect(store, dsk)
             vals == IF e.storage # "db"
                     THEN [view[id] EXCEPT !.store_fname = w.ret,
                                           !.db_datas = <<>>]
                     ELSE [view[id] EXCEPT !.store_fname = <<>>,
                                           !.db_datas = value]
             fname_to_delete == view[id].store_fname
             written == [view EXCEPT ![id] = vals]
         IN  IF w.raise # NoErr
             THEN RowEffect(w, view)
             ELSE IF fname_to_delete # <<>>
             THEN RowEffect(AndThen(w, _file_delete(e, w.s3, w.disk, written,
                                                    fname_to_delete, dfault)),
                            written)
             ELSE RowEffect(w, written)

\* (mutant of InlineVals: store_fname is left as it is)
InlineValsKeepName(row, value) == [row EXCEPT !.db_datas = value]

\* vals = {'db_datas': value, 'store_fname': False, ...}
InlineVals(row, value) ==
    [row EXCEPT !.db_datas = value, !.store_fname = <<>>]

\* _inverse_datas() of one attachment
_inverse_datas(e, store, dsk, view, id, value, wfault, dfault) ==
    LET location == e.storage
    IN  IF location = "s3" /\ _store_in_db_when_s3(view[id])
        THEN LET vals == InlineVals(view[id], value)
                 fname == view[id].store_fname
                 written == [view EXCEPT ![id] = vals]
             IN  IF fname # <<>>
                 THEN RowEffect(_file_delete(e, store, dsk, written, fname,
                                             dfault), written)
                 ELSE RowEffect(NoEffect(store, dsk), written)
        ELSE _data_set(e, store, dsk, view, id, value, wfault, dfault)

\* unlink(): the row is deleted, then its file goes to _file_delete
unlink(e, store, dsk, view, id, dfault) ==
    LET fname == view[id].store_fname
        written == [view EXCEPT ![id] = Deleted(view[id])]
    IN  IF fname # <<>>
        THEN RowEffect(_file_delete(e, store, dsk, written, fname, dfault),
                       written)
        ELSE RowEffect(NoEffect(store, dsk), written)

\* _move_attachment_to_s3(): ret is the path to clean, None when there is none
_move_attachment_to_s3(e, store, dsk, view, id, wfault, dfault) ==
    LET fname == view[id].store_fname
        datas == _compute_datas(e, store, dsk, view[id], "none")
        w == _inverse_datas(e, datas.s3, dsk, view, id, datas.ret, wfault,
                            dfault)
    IN  IF fname # <<>>
        THEN [w EXCEPT !.ret = IF w.raise = NoErr THEN _full_path(fname)
                                ELSE <<>>]
        ELSE IF view[id].db_datas # <<>>
        THEN [w EXCEPT !.ret = <<>>]
        ELSE RowEffect(NoEffect(store, dsk), view)

-----------------------------------------------------------------------------
(* State shared by the two specifications. *)

Untouched == [state |-> "untouched", store_fname |-> <<>>, db_datas |-> <<>>,
              res_model |-> "", res_field |-> ""]
\* the pass of a caller; failed holds the rows its transaction has logged as
\* 'Could not migrate attachment', taken the rows whose lock the pass has
\* taken and kept
IdleMig == [pc |-> "idle", new_cr |-> FALSE, ids |-> {}, files_to_clean |-> <<>>,
            id |-> 0, failed |-> {}, taken |-> {}]
\* the record of a handler's run (changed: whether it changed the object
\* storage), and of the run before it
NoPrev == [op |-> "", fname |-> <<>>, value |-> <<>>, fault |-> "",
           raise |-> NoErr, ret |-> <<>>, del |-> <<>>]
NoIo == [op |-> "", cr |-> 0, id |-> 0, fname |-> <<>>, value |-> <<>>, fault |-> "",
         raise |-> NoErr, ret |-> <<>>, log |-> <<>>, conn |-> <<>>,
         put |-> <<>>, del |-> <<>>, changed |-> FALSE, prev |-> NoPrev]

Ran(op, id, fname, value, fault, eff) ==
    [op |-> op, cr |-> 0, id |-> id, fname |-> fname, value |-> value, fault |-> fault,
     raise |-> eff.raise, ret |-> eff.ret, log |-> eff.log, conn |-> eff.conn,
     put |-> eff.put, del |-> eff.del, changed |-> (eff.s3 # s3),
     prev |-> [op |-> io.op, fname |-> io.fname, value |-> io.value,
               fault |-> io.fault, raise |-> io.raise, ret |-> io.ret,
               del |-> io.del]]

\* the environment of a configured deployment
ConcEnv == [storage |-> "s3", AWS_ACCESS_KEY_ID |-> TRUE,
            AWS_SECRET_ACCESS_KEY |-> TRUE, AWS_BUCKETNAME |-> "acme"]

Models == {"ir.ui.view", "res.partner"}
Fields == {"", "image", "image_small", "image_medium", "web_icon_data"}

NoTransactions ==
    /\ own = [c \in Cursors |-> [id \in Ids |-> Untouched]]
    /\ lock = [id \in Ids |-> 0]
    /\ tx = [c \in Cursors |-> "ok"]
    /\ hooks = [c \in Cursors |-> <<>>]
    /\ mig = [t \in Txns |-> IdleMig]

-----------------------------------------------------------------------------
(* SpecSeq: the storage handlers (_file_read, _file_write, _file_delete)    *)
(* called one at a time, under every configuration and every backend        *)
(* failure. The table only serves the reference count of _file_delete.      *)

SeqEnvs == [storage : {"s3", "file"},
            AWS_ACCESS_KEY_ID : BOOLEAN, AWS_SECRET_ACCESS_KEY : BOOLEAN,
            AWS_BUCKETNAME : {"acme", NoneStr}]

\* the payload stored under a key
Preimage(k) == CHOOSE b \in Bytes : _compute_checksum(b) = k

\* the bucket of another environment holds an object under every key
OtherBucket == [exists |-> TRUE, keys |-> [k \in Keys |-> Preimage(k)]]
\* the configured bucket once the payload <<1>> has been written
UsedBucket ==
    [exists |-> TRUE,
     keys |-> [k \in Keys |-> IF k = _compute_checksum(<<1>>) THEN <<1>>
                              ELSE NoKey]]

\* the rows that reference the objects above: a database restored from
\* another environment brings rows of its bucket
SeqRows(store) ==
    {Unborn}
    \cup {Row(S3Name("other", _compute_checksum(<<1>>)), <<>>,
              "res.partner", "") : x \in {1} \cap
                                       {IF store["other"].exists THEN 1 ELSE 0}}
    \cup {Row(S3Name("acme", _compute_checksum(<<1>>)), <<>>,
              "res.partner", "") : x \in {1} \cap
                                       {IF store["acme"] = UsedBucket THEN 1
                                        ELSE 0}}

InitSeq ==
    /\ env \in SeqEnvs
    /\ s3 \in {[b \in BucketNames |-> IF b = "acme" THEN a ELSE o] :
                  a \in {NoBucket, EmptyBucket, UsedBucket},
                  o \in {NoBucket, OtherBucket}}
    /\ disk = [p \in LocalPaths |-> NoFile]
    /\ db \in {[id \in Ids |-> IF id = 1 THEN r ELSE Unborn] :
                  r \in SeqRows(s3)}
    /\ NoTransactions
    /\ io = NoIo
    /\ nops = 0

SeqFrame == UNCHANGED <<env, db, own, lock, tx, hooks, mig>>

\* _file_read(fname)
SeqRead(fname, fault) ==
    LET r == _file_read(env, s3, disk, fname, fault)
    IN  /\ nops < MaxSeqOps
        /\ nops' = nops + 1
        /\ s3' = r.s3
        /\ io' = Ran("read", 0, fname, <<>>, fault, r)
        /\ UNCHANGED disk
        /\ SeqFrame

\* _file_write(value, checksum)
SeqFileWrite(value, fault) ==
    LET r == _file_write(env, s3, disk, value, fault)
    IN  /\ nops < MaxSeqOps
        /\ nops' = nops + 1
        /\ s3' = r.s3
        /\ disk' = r.disk
        /\ io' = Ran("file_write", 0, <<>>, value, fault, r)
        /\ SeqFrame

\* _file_delete(fname)
SeqFileDelete(fname, fault) ==
    LET r == _file_delete(env, s3, disk, db, fname, fault)
    IN  /\ nops < MaxSeqOps
        /\ nops' = nops + 1
        /\ s3' = r.s3
        /\ io' = Ran("file_delete", 0, fname, <<>>, fault, r)
        /\ UNCHANGED disk
        /\ SeqFrame

NextSeq ==
    \/ \E fname \in S3Names \cup LocalNames, fault \in Faults :
          SeqRead(fname, fault)
    \/ \E value \in Values, fault \in Faults : SeqFileWrite(value, fault)
    \/ \E fname \in S3Names \cup LocalNames, fault \in Faults :
          SeqFileDelete(fname, fault)

SpecSeq == InitSeq /\ [][NextSeq]_vars

-----------------------------------------------------------------------------
(* SpecRow: attachments of every model and field are created and rewritten, *)
(* one at a time, under every configured location of the attachments.       *)

RowEnvs == {[ConcEnv EXCEPT !.storage = location] :
               location \in {"s3", "file", "db"}}

InitRow ==
    /\ env \in RowEnvs
    /\ s3 = [b \in BucketNames |-> IF b = "acme" THEN EmptyBucket
                                   ELSE NoBucket]
    /\ disk = [p \in LocalPaths |-> NoFile]
    /\ db = [id \in Ids |-> Unborn]
    /\ NoTransactions
    /\ io = NoIo
    /\ nops = 0

\* the state once the inverse of datas has run on the row
RowWritten(op, id, value, r) ==
    /\ s3' = r.s3
    /\ disk' = r.disk
    /\ db' = r.view
    /\ io' = Ran(op, id, <<>>, value, "none", r)
    /\ UNCHANGED <<env, own, lock, tx, hooks, mig>>

\* create({'datas': value, 'res_model': ..., 'res_field': ...})
RowCreate(id, value, res_model, res_field) ==
    /\ nops < MaxRowOps
    /\ db[id].state = "unborn"
    /\ nops' = nops + 1
    /\ RowWritten("create", id, value,
                  _inverse_datas(env, s3, disk,
                                 [db EXCEPT ![id] = Row(<<>>, <<>>, res_model,
                                                        res_field)],
                                 id, value, "none", "none"))

\* write({'datas': value})
RowWrite(id, value) ==
    /\ nops < MaxRowOps
    /\ db[id].state = "live"
    /\ nops' = nops + 1
    /\ RowWritten("write", id, value,
                  _inverse_datas(env, s3, disk, db, id, value, "none",
                                 "none"))

Exists(dsk, full_path) == full_path \in DOMAIN dsk /\ dsk[full_path] # NoFile

\* clean_fs(files)
RECURSIVE clean_fs(_, _)
clean_fs(dsk, files) ==
    IF files = <<>> THEN dsk
    ELSE clean_fs(IF Exists(dsk, Head(files))
                  THEN [dsk EXCEPT ![Head(files)] = NoFile]
                  ELSE dsk,
                  Tail(files))

\* whether _move_attachment_to_s3 writes the row
NeedsUpdate(row) == row.store_fname # <<>> \/ row.db_datas # <<>>

\* the rows the domain of _force_storage_s3 selects
Candidate(row) == row.state = "live" /\ ~IsS3(row.store_fname)
search(view) == {id \in Ids : Candidate(view[id])}

\* ir_attachment.location is set to another value
RowSetLocation(location) ==
    /\ location # env.storage
    /\ env' = [env EXCEPT !.storage = location]
    /\ io' = [NoIo EXCEPT !.op = "set_location"]
    /\ UNCHANGED <<s3, disk, db, own, lock, tx, hooks, mig, nops>>

\* (mutant of MayForceStorage: the caller is not checked)
AnyoneMayForceStorage(is_admin) == TRUE

\* self.env['res.users'].browse(self.env.uid)._is_admin()
MayForceStorage(is_admin) == is_admin

\* the loop of _force_storage_s3 as far as it has come: the table, the
\* storages and the paths collected
PassStart(store, dsk, view) ==
    [raise |-> NoErr, s3 |-> store, disk |-> dsk, view |-> view,
     files_to_clean |-> <<>>, log |-> <<>>, conn |-> <<>>, put |-> <<>>,
     del |-> <<>>]

\* one more row: r is what _move_attachment_to_s3 did
PassMoved(acc, r) ==
    [raise |-> r.raise, s3 |-> r.s3, disk |-> r.disk,
     view |-> IF r.raise = NoErr THEN r.view ELSE acc.view,
     files_to_clean |-> IF r.raise = NoErr /\ r.ret # <<>>
                        THEN Append(acc.files_to_clean, r.ret)
                        ELSE acc.files_to_clean,
     log |-> acc.log \o r.log, conn |-> acc.conn \o r.conn,
     put |-> acc.put \o r.put, del |-> acc.del \o r.del]

\* for attachment_id in ids, no other transaction holding a lock: every row
\* is locked and moved, until an exception leaves the loop
RECURSIVE PassLoop(_, _, _)
PassLoop(e, acc, ids) ==
    IF ids = {} \/ acc.raise # NoErr THEN acc
    ELSE LET id == CHOOSE i \in ids : \A j \in ids : i >= j
         IN  PassLoop(e,
                      PassMoved(acc,
                                _move_attachment_to_s3(e, acc.s3, acc.disk,
                                                       acc.view, id, "none",
                                                       "none")),
                      ids \ {id})

\* the state once the request that called _force_storage_s3 is over: an
\* exception rolls its transaction back, else the transaction is committed
\* and the callback registered with cr.after('commit', clean) runs
RowPassDone(is_admin, p) ==
    /\ s3' = p.s3
    /\ db' = IF p.raise = NoErr THEN p.view ELSE db
    /\ disk' = IF p.raise = NoErr THEN clean_fs(p.disk, p.files_to_clean)
               ELSE p.disk
    /\ io' = Ran("force_storage", 0, <<>>, <<>>,
                 IF is_admin THEN "none" ELSE "not_admin",
                 Effect(p.raise, <<>>, p.s3, p.disk, p.log, p.conn, p.put,
                        p.del))
    /\ UNCHANGED <<env, own, lock, tx, hooks, mig>>

\* _force_storage_s3() called in a request of its own
RowForceStorage(is_admin) ==
    /\ nops < MaxRowOps
    /\ nops' = nops + 1
    /\ RowPassDone(is_admin,
                   IF ~MayForceStorage(is_admin)
                   THEN [PassStart(s3, disk, db) EXCEPT
                            !.raise = "AccessError"]
                   ELSE IF env.storage # "s3" THEN PassStart(s3, disk, db)
                   ELSE PassLoop(env, PassStart(s3, disk, db), search(db)))

NextRow ==
    \/ \E id \in Ids, value \in Values, res_model \in Models,
          res_field \in Fields : RowCreate(id, value, res_model, res_field)
    \/ \E id \in Ids, value \in Values : RowWrite(id, value)
    \/ \E location \in {"s3", "file", "db"} : RowSetLocation(location)
    \/ \E is_admin \in BOOLEAN : RowForceStorage(is_admin)

SpecRow == InitRow /\ [][NextRow]_vars

-----------------------------------------------------------------------------
(* Spec: concurrent transactions on the table, the object storage and the  *)
(* filestore. Every caller cursor may write and unlink attachments, update  *)
(* another column of a row (which locks the row), run _force_storage_s3,    *)
(* and commit or roll back. Rows are read as committed, overlaid with the   *)
(* cursor's own writes; an UPDATE or DELETE holds the row's lock until its  *)
(* transaction ends, and a write that would wait for a lock is taken when   *)
(* the lock is free. An exception that leaves a handler makes its caller    *)
(* roll back.                                                               *)

\* failures met while a row is migrated: none, the upload is refused, the
\* UPDATE of the row raises psycopg2.OperationalError (a serialization
\* failure, a deadlock, a timeout)
MigFaults == {"none", "transfer", "operational"}

\* the table as cursor c sees it
View(c) ==
    [id \in Ids |-> IF own[c][id].state # "untouched" THEN own[c][id]
                    ELSE db[id]]
CanLock(c, id) == lock[id] \in {0, c}
NoOwn == [id \in Ids |-> Untouched]
Pending(c) ==
    \/ own[c] # NoOwn
    \/ \E id \in Ids : lock[id] = c
    \/ hooks[c] # <<>>

\* the callbacks of cr.after('commit', ...), run in the order registered
RECURSIVE RunHooks(_, _)
RunHooks(dsk, hs) ==
    IF hs = <<>> THEN dsk
    ELSE RunHooks(clean_fs(dsk, Head(hs)), Tail(hs))

\* cr.commit() and cr.rollback() of cursor c, on the given values
Committed(table, o, c) ==
    [id \in Ids |-> IF o[c][id].state # "untouched" THEN o[c][id]
                    ELSE table[id]]
Released(l, c) == [id \in Ids |-> IF l[id] = c THEN 0 ELSE l[id]]

RanBy(c, op, id, fname, value, fault, eff) ==
    [Ran(op, id, fname, value, fault, eff) EXCEPT !.cr = c, !.prev = NoPrev]

InitRows ==
    {Unborn,
     Row(LocalName(_compute_checksum(<<1>>)), <<>>, "res.partner", ""),
     Row(S3Name("acme", _compute_checksum(<<1>>)), <<>>, "res.partner", "")}

Init ==
    /\ env = ConcEnv
    /\ db \in [Ids -> InitRows]
    /\ s3 = [b \in BucketNames |->
                IF b = "acme"
                THEN IF \E id \in Ids : IsS3(db[id].store_fname)
                     THEN UsedBucket ELSE EmptyBucket
                ELSE NoBucket]
    /\ disk = [p \in LocalPaths |->
                  IF \E id \in Ids : db[id].store_fname # <<>>
                                     /\ ~IsS3(db[id].store_fname)
                                     /\ _full_path(db[id].store_fname) = p
                  THEN <<1>> ELSE NoFile]
    /\ NoTransactions
    /\ io = NoIo
    /\ nops = 0

ConcKinds == {<<"res.partner", "">>, <<"res.partner", "image_small">>}

\* create({'datas': value, ...}) of a new row, or write({'datas': value}) on
\* a live one
Write(t, id, value, kind) ==
    LET old == View(t)[id]
        view == IF old.state = "unborn"
                THEN [View(t) EXCEPT ![id] = Row(<<>>, <<>>, kind[1], kind[2])]
                ELSE View(t)
        r == _inverse_datas(env, s3, disk, view, id, value, "none", "none")
    IN  /\ nops < MaxOps
        /\ tx[t] = "ok" /\ mig[t].pc = "idle"
        /\ old.state \in {"unborn", "live"}
        /\ old.state = "live" => kind = <<old.res_model, old.res_field>>
        /\ CanLock(t, id)
        /\ nops' = nops + 1
        /\ s3' = r.s3
        /\ disk' = r.disk
        /\ own' = [own EXCEPT ![t][id] = r.view[id]]
        /\ lock' = [lock EXCEPT ![id] = t]
        /\ io' = RanBy(t, "write", id, old.store_fname, value, "none", r)
        /\ UNCHANGED <<env, db, tx, hooks, mig>>

\* unlink() of a live row
Unlink(t, id) ==
    LET r == unlink(env, s3, disk, View(t), id, "none")
    IN  /\ nops < MaxOps
        /\ tx[t] = "ok" /\ mig[t].pc = "idle"
        /\ View(t)[id].state = "live"
        /\ CanLock(t, id)
        /\ nops' = nops + 1
        /\ s3' = r.s3
        /\ disk' = r.disk
        /\ own' = [own EXCEPT ![t][id] = r.view[id]]
        /\ lock' = [lock EXCEPT ![id] = t]
        /\ io' = RanBy(t, "unlink", id, View(t)[id].store_fname, <<>>,
                       "none", r)
        /\ UNCHANGED <<env, db, tx, hooks, mig>>

\* a concurrent writer updates another column of the row (or selects it FOR
\* UPDATE): it holds the row's lock until its transaction ends
LockRow(t, id) ==
    /\ nops < MaxOps
    /\ tx[t] = "ok" /\ mig[t].pc = "idle"
    /\ View(t)[id].state = "live"
    /\ lock[id] = 0
    /\ nops' = nops + 1
    /\ lock' = [lock EXCEPT ![id] = t]
    /\ io' = RanBy(t, "lock", id, <<>>, <<>>, "none", NoEffect(s3, disk))
    /\ UNCHANGED <<env, s3, disk, db, own, tx, hooks, mig>>

\* cr.commit() of a caller: its rows become visible, its locks are released,
\* its commit callbacks run
Commit(t) ==
    /\ tx[t] = "ok" /\ mig[t].pc = "idle"
    /\ Pending(t)
    /\ db' = Committed(db, own, t)
    /\ own' = [own EXCEPT ![t] = NoOwn]
    /\ lock' = Released(lock, t)
    /\ disk' = RunHooks(disk, hooks[t])
    /\ hooks' = [hooks EXCEPT ![t] = <<>>]
    /\ mig' = [mig EXCEPT ![t].failed = {}]
    /\ io' = RanBy(t, "commit", 0, <<>>, <<>>, "none", NoEffect(s3, disk))
    /\ UNCHANGED <<env, s3, tx, nops>>

\* cr.rollback() of a caller: its rows and its commit callbacks are dropped
Rollback(t) ==
    /\ mig[t].pc = "idle"
    /\ Pending(t) \/ tx[t] # "ok"
    /\ own' = [own EXCEPT ![t] = NoOwn]
    /\ lock' = Released(lock, t)
    /\ hooks' = [hooks EXCEPT ![t] = <<>>]
    /\ tx' = [tx EXCEPT ![t] = "ok"]
    /\ mig' = [mig EXCEPT ![t].failed = {}]
    /\ io' = RanBy(t, "rollback", 0, <<>>, <<>>, "none", NoEffect(s3, disk))
    /\ UNCHANGED <<env, s3, disk, db, nops>>

\* the cursor of new_env in the pass of caller t: do_in_new_env(new_cr)
PassCr(t) == IF mig[t].new_cr THEN NewCr(t) ELSE t

\* _force_storage_s3(new_cr), up to the search of the rows to migrate
ForceStorage(t, new_cr) ==
    /\ nops < MaxOps
    /\ tx[t] = "ok" /\ mig[t].pc = "idle"
    /\ env.storage = "s3"
    /\ nops' = nops + 1
    /\ mig' = [mig EXCEPT ![t] =
                  [pc |-> "loop", new_cr |-> new_cr,
                   ids |-> search(View(IF new_cr THEN NewCr(t) ELSE t)),
                   files_to_clean |-> <<>>, id |-> 0,
                   failed |-> mig[t].failed, taken |-> {}]]
    /\ io' = RanBy(t, "force_storage", 0, <<>>, <<>>, "none",
                   NoEffect(s3, disk))
    /\ UNCHANGED <<env, s3, disk, db, own, lock, tx, hooks>>

\* an exception leaves the loop: the savepoint of the row is rolled back,
\* do_in_new_env rolls the new cursor back, no callback is registered, and
\* the exception reaches the caller
AbortPass(t, id, raise, store) ==
    /\ s3' = store
    /\ own' = IF mig[t].new_cr THEN [own EXCEPT ![NewCr(t)] = NoOwn] ELSE own
    /\ lock' = IF mig[t].new_cr THEN Released(lock, NewCr(t)) ELSE lock
    /\ hooks' = IF mig[t].new_cr THEN [hooks EXCEPT ![NewCr(t)] = <<>>]
                ELSE hooks
    /\ tx' = [tx EXCEPT ![t] = IF @ = "aborted" THEN @ ELSE "failed"]
    /\ mig' = [mig EXCEPT ![t] = [IdleMig EXCEPT !.failed = mig[t].failed]]
    /\ io' = RanBy(t, "migrate_abort", id, <<>>, <<>>, "none",
                   [NoEffect(store, disk) EXCEPT !.raise = raise])
    /\ UNCHANGED <<env, disk, db, nops>>

\* the lock query runs on self.env.cr while its transaction is in the
\* aborted state: psycopg2.InternalError, which the loop does not catch
MigrateRowInFailedTx(t, id) ==
    /\ mig[t].pc = "loop" /\ id \in mig[t].ids
    /\ tx[t] = "aborted"
    /\ AbortPass(t, id, "InternalError", s3)

\* SELECT ... FOR UPDATE NOWAIT on self.env.cr finds the row locked by
\* another transaction: psycopg2.OperationalError, caught by the loop. The
\* savepoint that is rolled back is new_env.cr's.
MigrateRowSkip(t, id) ==
    /\ mig[t].pc = "loop" /\ id \in mig[t].ids
    /\ tx[t] = "ok"
    /\ ~CanLock(t, id)
    /\ tx' = [tx EXCEPT ![t] = IF PassCr(t) = t THEN "ok" ELSE "aborted"]
    /\ mig' = [mig EXCEPT ![t].ids = @ \ {id}, ![t].failed = @ \cup {id}]
    /\ io' = RanBy(t, "migrate_skip", id, View(PassCr(t))[id].store_fname,
                   <<>>, "none",
                   [NoEffect(s3, disk) EXCEPT !.raise = "OperationalError"])
    /\ UNCHANGED <<env, s3, disk, db, own, lock, hooks, nops>>

\* the row was deleted after the search: the lock query returns nothing and
\* reading the record raises MissingError
MigrateRowMissing(t, id) ==
    /\ mig[t].pc = "loop" /\ id \in mig[t].ids
    /\ tx[t] = "ok"
    /\ CanLock(t, id)
    /\ View(PassCr(t))[id].state # "live"
    /\ AbortPass(t, id, "MissingError", s3)

\* the object storage once _inverse_datas has uploaded the row's content,
\* before the UPDATE of the row
AfterPut(view, id) ==
    LET datas == _compute_datas(env, s3, disk, view[id], "none")
    IN  IF _store_in_db_when_s3(view[id]) \/ datas.ret = <<>>
        THEN datas.s3
        ELSE _file_write(env, datas.s3, disk, datas.ret, "none").s3

\* the rest of the loop body, r being what _move_attachment_to_s3 did
MoveOutcome(t, id, fault, cr, r) ==
    IF fault = "operational"
    \* the UPDATE raises OperationalError: the savepoint is rolled back
    THEN /\ NeedsUpdate(View(cr)[id])
         /\ s3' = AfterPut(View(cr), id)
         /\ mig' = [mig EXCEPT ![t].ids = @ \ {id},
                                ![t].failed = @ \cup {id}]
         /\ io' = RanBy(t, "migrate_skip", id, View(cr)[id].store_fname,
                        <<>>, fault,
                        [r EXCEPT !.raise = "OperationalError",
                                  !.ret = <<>>, !.del = <<>>])
         /\ UNCHANGED <<env, disk, db, own, lock, tx, hooks, nops>>
    ELSE IF r.raise # NoErr
    THEN AbortPass(t, id, r.raise, r.s3)
    ELSE /\ s3' = r.s3
         /\ disk' = r.disk
         /\ own' = [own EXCEPT ![cr][id] = r.view[id]]
         /\ lock' = [lock EXCEPT ![id] = t]
         /\ mig' = [mig EXCEPT
                       ![t].ids = @ \ {id},
                       ![t].taken = IF lock[id] = t THEN @ ELSE @ \cup {id},
                       ![t].files_to_clean =
                           IF r.ret # <<>> THEN Append(@, r.ret) ELSE @]
         /\ io' = RanBy(t, "migrate_row", id, View(cr)[id].store_fname,
                        <<>>, fault, r)
         /\ UNCHANGED <<env, db, tx, hooks, nops>>

\* the lock is taken and the row is moved, all in one transaction
MigrateRowMove(t, id, fault) ==
    /\ mig[t].pc = "loop" /\ id \in mig[t].ids
    /\ tx[t] = "ok"
    /\ CanLock(t, id)
    /\ View(PassCr(t))[id].state = "live"
    /\ PassCr(t) = t \/ ~NeedsUpdate(View(PassCr(t))[id])
    /\ MoveOutcome(t, id, fault, PassCr(t),
                   _move_attachment_to_s3(env, s3, disk, View(PassCr(t)), id,
                                          IF fault = "transfer" THEN fault
                                          ELSE "none", "none"))

\* new_cr: the lock is held by self.env.cr and the UPDATE of the row, on
\* new_env.cr, waits for it; the caller's transaction cannot end before the
\* pass returns, so the wait never ends
MigrateRowBlocked(t, id) ==
    LET cr == PassCr(t)
    IN  /\ mig[t].pc = "loop" /\ id \in mig[t].ids
        /\ tx[t] = "ok"
        /\ CanLock(t, id)
        /\ View(cr)[id].state = "live"
        /\ cr # t /\ NeedsUpdate(View(cr)[id])
        /\ lock' = [lock EXCEPT ![id] = t]
        \* write() updates the stored columns (mimetype) before it stores
        \* datas; without them the content is uploaded first
        /\ s3' = IF View(cr)[id].store_fname # <<>> THEN s3
                 ELSE AfterPut(View(cr), id)
        /\ mig' = [mig EXCEPT ![t].pc = "blocked", ![t].id = id,
                               ![t].taken = IF lock[id] = t THEN @
                                            ELSE @ \cup {id}]
        /\ io' = RanBy(t, "migrate_blocked", id, View(cr)[id].store_fname,
                       <<>>, "none", NoEffect(s3, disk))
        /\ UNCHANGED <<env, disk, db, own, tx, hooks, nops>>

\* the loop is over: the cleanup is registered on new_env.cr, and
\* do_in_new_env commits the cursor it opened
MigrateEnd(t) ==
    LET cr == PassCr(t)
        registered == IF mig[t].files_to_clean # <<>>
                      THEN Append(hooks[cr], mig[t].files_to_clean)
                      ELSE hooks[cr]
    IN  /\ mig[t].pc = "loop" /\ mig[t].ids = {}
        /\ mig' = [mig EXCEPT ![t] = [IdleMig EXCEPT !.failed = mig[t].failed]]
        /\ IF mig[t].new_cr
           THEN /\ db' = Committed(db, own, cr)
                /\ own' = [own EXCEPT ![cr] = NoOwn]
                /\ lock' = Released(lock, cr)
                /\ disk' = RunHooks(disk, registered)
                /\ hooks' = [hooks EXCEPT ![cr] = <<>>]
           ELSE /\ hooks' = [hooks EXCEPT ![cr] = registered]
                /\ UNCHANGED <<db, own, lock, disk>>
        /\ io' = RanBy(t, "migrate_end", 0, <<>>, <<>>, "none",
                       NoEffect(s3, disk))
        /\ UNCHANGED <<env, s3, tx, nops>>

Next ==
    \/ \E t \in Txns, id \in Ids, value \in Values, kind \in ConcKinds :
          Write(t, id, value, kind)
    \/ \E t \in Txns, id \in Ids : Unlink(t, id)
    \/ \E t \in Txns, id \in Ids : LockRow(t, id)
    \/ \E t \in Txns : Commit(t)
    \/ \E t \in Txns : Rollback(t)
    \/ \E t \in Txns, new_cr \in BOOLEAN : ForceStorage(t, new_cr)
    \/ \E t \in Txns, id \in Ids : MigrateRowInFailedTx(t, id)
    \/ \E t \in Txns, id \in Ids : MigrateRowSkip(t, id)
    \/ \E t \in Txns, id \in Ids : MigrateRowMissing(t, id)
    \/ \E t \in Txns, id \in Ids, fault \in MigFaults :
          MigrateRowMove(t, id, fault)
    \/ \E t \in Txns, id \in Ids : MigrateRowBlocked(t, id)
    \/ \E t \in Txns : MigrateEnd(t)

Spec == Init /\ [][Next]_vars

-----------------------------------------------------------------------------
(* Properties of the storage handlers, under SpecSeq. *)

Configured(e) ==
    e.AWS_ACCESS_KEY_ID /\ e.AWS_SECRET_ACCESS_KEY /\ e.AWS_BUCKETNAME = "acme"

\* C6: _file_delete of an s3:// name whose bucket is not AWS_BUCKETNAME does
\* nothing to the object storage: it deletes no object, looks up no bucket
\* and creates none, whatever the number of rows that hold the name.
C6_CrossEnvDeleteIsNoop ==
    (io.op = "file_delete" /\ IsS3(io.fname)
        /\ S3Uri(io.fname).bucket # env.AWS_BUCKETNAME)
    => (~io.changed /\ io.del = <<>> /\ io.conn = <<>> /\ io.raise = NoErr)

\* an unreferenced object of the other bucket survives its delete
C6_Witness ==
    /\ io.op = "file_delete" /\ IsS3(io.fname)
    /\ S3Uri(io.fname).bucket = "other" /\ env.AWS_BUCKETNAME = "acme"
    /\ env.AWS_ACCESS_KEY_ID /\ env.AWS_SECRET_ACCESS_KEY
    /\ CountRefs(db, io.fname) = 0
    /\ s3["other"].keys[S3Uri(io.fname).item] # NoKey

\* C7: with the object storage configured and reachable, _file_write of the
\* base64 of any payload b (the empty one too) returns
\* 's3://<AWS_BUCKETNAME>/<checksum(b)>', and _file_read of the name a write
\* returned, remote or local, gives back the value written.
C7_RoundTrip ==
    /\ (io.op = "file_write" /\ io.fault = "none" /\ env.storage = "s3"
           /\ Configured(env))
       => (io.raise = NoErr
           /\ io.ret = <<"s3://", env.AWS_BUCKETNAME, "/",
                         _compute_checksum(b64decode(io.value))>>)
    /\ (io.op = "read" /\ io.fault = "none" /\ io.prev.op = "file_write"
           /\ io.prev.raise = NoErr /\ io.fname = io.prev.ret)
       => (io.raise = NoErr /\ io.ret = io.prev.value
           /\ b64decode(io.ret) \in Bytes)

C7_Witness ==
    /\ io.op = "read" /\ io.prev.op = "file_write" /\ io.prev.raise = NoErr
    /\ io.fname = io.prev.ret /\ IsS3(io.fname)
    /\ b64decode(io.ret) = <<1>>

\* C8: a second _file_delete of the same s3:// name, the backend answering
\* both, raises nothing and leaves the object storage as the first left it;
\* and _file_delete of a name whose key is not in the bucket raises nothing.
C8_IdempotentDelete ==
    /\ (io.op = "file_delete" /\ io.prev.op = "file_delete"
           /\ io.fname = io.prev.fname /\ IsS3(io.fname)
           /\ io.fault = "none" /\ io.prev.fault = "none"
           /\ io.prev.raise = NoErr)
       => (io.raise = NoErr /\ ~io.changed /\ io.del = <<>>)
    /\ (io.op = "file_delete" /\ IsS3(io.fname) /\ io.fault = "none"
           /\ Configured(env) /\ S3Uri(io.fname).bucket = "acme"
           /\ s3["acme"].keys[S3Uri(io.fname).item] = NoKey
           /\ io.del = <<>>)
       => io.raise = NoErr

\* the first delete removed the object, the second found the key absent
C8_Witness ==
    /\ io.op = "file_delete" /\ io.prev.op = "file_delete"
    /\ io.fname = io.prev.fname /\ IsS3(io.fname)
    /\ io.fault = "none" /\ io.prev.fault = "none"
    /\ Configured(env) /\ S3Uri(io.fname).bucket = "acme"
    /\ io.prev.del = <<S3Uri(io.fname).item>>
    /\ s3["acme"].keys[S3Uri(io.fname).item] = NoKey
    /\ io.raise = NoErr

\* C10: _file_read of an s3:// name never raises; when the credentials are
\* missing, or the backend fails at any step of the read, it returns the
\* empty content and logs.
C10_ReadNeverRaises ==
    (io.op = "read" /\ IsS3(io.fname))
    => /\ io.raise = NoErr
       /\ (~(env.AWS_ACCESS_KEY_ID /\ env.AWS_SECRET_ACCESS_KEY)
              \/ io.fault # "none")
          => (io.ret = <<>> /\ io.log # <<>>)

-----------------------------------------------------------------------------
(* Properties of the transactions, under Spec. *)

\* C1: a step removes an object of the configured bucket only when the
\* cursor that runs _file_delete sees, once its row is written or deleted,
\* no live row left whose store_fname is the object's name; of two rows that
\* hold the same name, unlinking one leaves the object in place.
C1_ReferenceSafety ==
    [][\A k \in Keys :
          (s3["acme"].keys[k] # NoKey /\ s3'["acme"].keys[k] = NoKey)
          => CountRefs(Committed(db', own', io'.cr), S3Name("acme", k)) = 0]_vars

\* one of two rows of the same name is unlinked and the object is still there
C1_Witness ==
    /\ io.op = "unlink" /\ IsS3(io.fname) /\ io.raise = NoErr
    /\ S3Uri(io.fname).bucket = env.AWS_BUCKETNAME
    /\ \E a \in Ids, b \in Ids :
          /\ a # b /\ io.id = a
          /\ db[a].store_fname = io.fname /\ View(io.cr)[a].state = "deleted"
          /\ View(io.cr)[b].state = "live"
          /\ View(io.cr)[b].store_fname = io.fname
    /\ io.del = <<>>
    /\ s3["acme"].keys[S3Uri(io.fname).item] # NoKey

\* no transaction is open
Quiescent ==
    /\ \A c \in Cursors : own[c] = NoOwn /\ tx[c] = "ok" /\ hooks[c] = <<>>
    /\ \A id \in Ids : lock[id] = 0
    /\ \A t \in Txns : mig[t].pc = "idle"

\* C2: once every transaction has ended, by commit or by rollback, every
\* committed live row whose store_fname names an object of the configured
\* bucket has that object in the bucket.
C2_NoBlobLost ==
    Quiescent
    => \A id \in Ids :
          (/\ db[id].state = "live" /\ IsS3(db[id].store_fname)
           /\ S3Uri(db[id].store_fname).bucket = env.AWS_BUCKETNAME)
          => /\ s3[env.AWS_BUCKETNAME].exists
             /\ s3[env.AWS_BUCKETNAME].keys[S3Uri(db[id].store_fname).item]
                   # NoKey

\* the paths the passes of caller t have collected and not yet cleaned
RECURSIVE Flatten(_)
Flatten(lists) ==
    IF lists = <<>> THEN <<>> ELSE Head(lists) \o Flatten(Tail(lists))
Range(seq) == {seq[i] : i \in DOMAIN seq}
Collected(t) ==
    Range(mig[t].files_to_clean) \cup Range(Flatten(hooks[t]))
        \cup Range(Flatten(hooks[NewCr(t)]))

\* C3: a file whose path a pass has collected is deleted by no step but the
\* commit of the transaction the pass ran in: not while the pass runs, not
\* while its cleanup waits for the commit, not by a rollback or an abort (the
\* committed rows are those of before the pass until the commit, so the row
\* is then found at its former location, with its file).
C3_DeferredCleanup ==
    [][\A t \in Txns :
          \A p \in Collected(t) :
             (Exists(disk, p) /\ ~Exists(disk', p))
             => (io'.cr = t /\ io'.op \in {"commit", "migrate_end"})]_vars

\* the content of a row can be read from where the row points
Readable(row, dsk, store) ==
    IF row.state # "live" \/ row.store_fname = <<>> THEN TRUE
    ELSE IF IsS3(row.store_fname)
    THEN /\ store[S3Uri(row.store_fname).bucket].exists
         /\ store[S3Uri(row.store_fname).bucket]
               .keys[S3Uri(row.store_fname).item] # NoKey
    ELSE Exists(dsk, _full_path(row.store_fname))

\* C4: when the transaction of a pass commits and its cleanup deletes the
\* collected paths, every row the pass has skipped (locked by another
\* transaction, or abandoned on an OperationalError) is still readable from
\* the location its committed row points to.
C4_SkippedRowKeepsContent ==
    [][(io'.op \in {"commit", "migrate_end"} /\ disk' # disk)
       => \A id \in mig[io'.cr].failed : Readable(db'[id], disk', s3')]_vars

\* C5: a step that skips a row locked by another transaction uploads
\* nothing, changes no row, no file and no lock, leaves the cleanup list as
\* it is and the pass in its loop, and a row that was a candidate is one
\* still; and the pass goes on: its next step is not the lock query failing
\* on a transaction the skip has left aborted.
C5_NonBlockingSkip ==
    [][/\ (io'.op = "migrate_skip" /\ io'.fault = "none")
          => /\ s3' = s3 /\ io'.put = <<>>
             /\ db' = db /\ own' = own /\ disk' = disk /\ lock' = lock
             /\ mig'[io'.cr].files_to_clean = mig[io'.cr].files_to_clean
             /\ hooks' = hooks
             /\ mig'[io'.cr].pc = "loop"
             /\ Candidate(db[io'.id]) => Candidate(db'[io'.id])
       /\ (io.op = "migrate_skip" /\ io.fault = "none"
              /\ io'.cr = io.cr /\ io'.op = "migrate_abort")
          => io'.raise # "InternalError"]_vars

-----------------------------------------------------------------------------
(* Properties of the writes of rows, under SpecRow. *)

\* C9: a content that is written goes to the object storage exactly when
\* the location is 's3', the row's model is not 'ir.ui.view' and its field
\* is not one of image_small, image_medium, web_icon_data; in every other
\* case (another location; an 'ir.ui.view' row of any field; a row of any
\* model with one of the three fields) nothing is uploaded and the row holds
\* no s3:// name. A row without field, or of field 'image', goes remote.
C9_PlacementPolicy ==
    (io.op \in {"create", "write"} /\ io.value # <<>> /\ io.raise = NoErr)
    => IF /\ env.storage = "s3"
          /\ db[io.id].res_model # "ir.ui.view"
          /\ db[io.id].res_field
                \notin {"image_small", "image_medium", "web_icon_data"}
       THEN /\ IsS3(db[io.id].store_fname) /\ db[io.id].db_datas = <<>>
            /\ io.put = <<_compute_checksum(b64decode(io.value))>>
       ELSE /\ ~IsS3(db[io.id].store_fname) /\ io.put = <<>>
            /\ env.storage = "s3"
               => (db[io.id].store_fname = <<>>
                   /\ db[io.id].db_datas = io.value)

\* an image_small of a partner is created under 's3' and kept in the table
C9_Witness ==
    /\ io.op = "create" /\ io.value # <<>> /\ io.raise = NoErr
    /\ env.storage = "s3"
    /\ db[io.id].res_model = "res.partner"
    /\ db[io.id].res_field = "image_small"
    /\ db[io.id].db_datas = io.value /\ db[io.id].store_fname = <<>>
    /\ \E id \in Ids : IsS3(db[id].store_fname)

-----------------------------------------------------------------------------
(* Properties of the failures of the storage handlers, under SpecSeq. *)

\* C11: when _file_delete has to delete the object (the name is of the
\* configured bucket, no row holds it, the key is in the bucket) and the
\* backend fails the deletion, _file_delete raises.
C11_DeleteFailureIsRaised ==
    (/\ io.op = "file_delete" /\ IsS3(io.fname) /\ io.fault = "transfer"
     /\ Configured(env) /\ S3Uri(io.fname).bucket = env.AWS_BUCKETNAME
     /\ CountRefs(db, io.fname) = 0
     /\ s3["acme"].keys[S3Uri(io.fname).item] # NoKey)
    => io.raise # NoErr

\* C12: under location 's3', a _file_write that returns a name has left the
\* object of that name in the bucket, holding the bytes written; with the
\* access key, the secret key or the bucket name missing it raises UserError
\* without connecting or looking up a bucket and leaves the object storage
\* as it was; when the backend refuses the upload it raises; and a
\* _file_write that raises returns no name.
C12_WriteNeverSilent ==
    (io.op = "file_write" /\ env.storage = "s3")
    => /\ io.raise = NoErr
          => /\ IsS3(io.ret)
             /\ s3[S3Uri(io.ret).bucket].exists
             /\ s3[S3Uri(io.ret).bucket].keys[S3Uri(io.ret).item]
                   = b64decode(io.value)
       /\ ~(/\ env.AWS_ACCESS_KEY_ID /\ env.AWS_SECRET_ACCESS_KEY
            /\ env.AWS_BUCKETNAME # NoneStr)
          => /\ io.raise = "UserError" /\ ~io.changed
             /\ io.conn = <<>> /\ io.log = <<>>
       /\ io.fault = "transfer" => io.raise # NoErr
       /\ io.raise # NoErr => (io.ret = <<>> /\ io.put = <<>>)

\* the secret key alone is missing and the write is refused
C12_Witness ==
    /\ io.op = "file_write" /\ env.storage = "s3"
    /\ env.AWS_ACCESS_KEY_ID /\ ~env.AWS_SECRET_ACCESS_KEY
    /\ env.AWS_BUCKETNAME = "acme" /\ io.fault = "none"
    /\ io.value # <<>>
    /\ io.raise = "UserError" /\ io.ret = <<>>
    /\ s3["acme"].keys[_compute_checksum(b64decode(io.value))] = NoKey

-----------------------------------------------------------------------------
(* Properties of _force_storage_s3 run alone, under SpecRow. *)

\* C13: _force_storage_s3 called by a user who is not an administrator
\* raises AccessError, and called by an administrator while the location is
\* not 's3' returns normally; in both cases no row, no object, no file, no
\* lock and no commit callback changes, and nothing is uploaded.
C13_MigrationPreconditions ==
    [][io'.op = "force_storage"
       => /\ io'.fault = "not_admin"
             => /\ io'.raise = "AccessError" /\ io'.put = <<>>
                /\ UNCHANGED <<s3, disk, db, own, lock, hooks>>
          /\ (io'.fault = "none" /\ env.storage # "s3")
             => /\ io'.raise = NoErr /\ io'.put = <<>>
                /\ UNCHANGED <<s3, disk, db, own, lock, hooks>>]_vars

\* a user who is not an administrator is refused while rows wait for the
\* migration
C13_Witness ==
    /\ io.op = "force_storage" /\ io.fault = "not_admin"
    /\ io.raise = "AccessError"
    /\ env.storage = "s3"
    /\ search(db) # {}

-----------------------------------------------------------------------------
(* Properties of the passes of concurrent transactions, under Spec. *)

\* C14: a row whose lock query or whose UPDATE raises OperationalError is
\* left as it was (no row version is written, committed or not), its path
\* is not collected, no file is touched and the pass stays in its loop and
\* goes on: its next step is not the lock query failing on a transaction
\* the error has left aborted. Any other exception ends the pass at once:
\* it reaches the caller, no callback is registered and no file is deleted.
C14_MigrationErrorPolicy ==
    [][/\ io'.op = "migrate_skip"
          => /\ io'.raise = "OperationalError"
             /\ db' = db /\ own' = own /\ disk' = disk /\ hooks' = hooks
             /\ mig'[io'.cr].files_to_clean = mig[io'.cr].files_to_clean
             /\ mig'[io'.cr].pc = "loop"
             /\ mig'[io'.cr].ids = mig[io'.cr].ids \ {io'.id}
       /\ (io.op = "migrate_skip" /\ io'.cr = io.cr
              /\ io'.op = "migrate_abort")
          => io'.raise # "InternalError"
       /\ io'.op = "migrate_abort"
          => /\ io'.raise \notin {NoErr, "OperationalError"}
             /\ mig'[io'.cr].pc = "idle" /\ mig'[io'.cr].ids = {}
             /\ tx'[io'.cr] # "ok"
             /\ \A c \in Cursors : hooks'[c] \in {hooks[c], <<>>}
             /\ disk' = disk /\ db' = db]_vars

\* C15: while a pass runs, its transaction holds the lock of at most one of
\* the rows whose lock the pass has taken: the lock of a row is gone when the
\* next row is visited.
C15_OneLockAtATime ==
    \A t \in Txns :
       mig[t].pc # "idle"
       => Cardinality({id \in mig[t].taken : lock[id] = t}) <= 1

-----------------------------------------------------------------------------
(* Properties of the rows after writes and passes, under SpecRow. *)

\* C16: once _force_storage_s3 has run under location 's3' with no row
\* skipped and no exception, every live row that holds a content, those of
\* 'ir.ui.view' and of the local fields too, has an s3:// store_fname whose
\* object is in the bucket: no row with a content is left for a later pass.
C16_PassLeavesNoCandidate ==
    (/\ io.op = "force_storage" /\ io.fault = "none" /\ io.raise = NoErr
     /\ env.storage = "s3")
    => \A id \in Ids :
          (db[id].state = "live" /\ NeedsUpdate(db[id]))
          => /\ ~Candidate(db[id])
             /\ IsS3(db[id].store_fname)
             /\ s3[S3Uri(db[id].store_fname).bucket]
                   .keys[S3Uri(db[id].store_fname).item] # NoKey

-----------------------------------------------------------------------------
(* Properties of the uploads, under SpecSeq. *)

\* C17: a _file_write under location 's3' whose checksum key is already in
\* the bucket uploads nothing and returns the name of that object; it uploads
\* only when the key is not there.
C17_DedupOnPut ==
    [][(/\ io'.op = "file_write" /\ env.storage = "s3" /\ Configured(env)
        /\ io'.fault = "none"
        /\ s3["acme"].exists
        /\ s3["acme"].keys[_compute_checksum(b64decode(io'.value))] # NoKey)
       => /\ io'.put = <<>>
          /\ io'.raise = NoErr
          /\ io'.ret = S3Name("acme",
                              _compute_checksum(b64decode(io'.value)))
          /\ s3' = s3]_vars

-----------------------------------------------------------------------------
(* Properties of the columns of a row, under SpecRow. *)

\* C18: whatever writes and passes have run, and however the location was
\* switched between them, no live row has an s3:// store_fname together with
\* a content in db_datas; and a write that the policy keeps in the table
\* under location 's3' leaves the content in db_datas and no store_fname, and
\* has sent the name the row had before, if any, to _file_delete.
C18_RowStorageInvariant ==
    [][/\ \A id \in Ids :
             db'[id].state = "live"
             => ~(IsS3(db'[id].store_fname) /\ db'[id].db_datas # <<>>)
       /\ (/\ io'.op \in {"create", "write"} /\ io'.raise = NoErr
           /\ env.storage = "s3" /\ _store_in_db_when_s3(db'[io'.id]))
          => /\ db'[io'.id].db_datas = io'.value
             /\ db'[io'.id].store_fname = <<>>
             /\ (db[io'.id].state = "live" /\ db[io'.id].store_fname # <<>>)
                => (io'.log # <<>> \/ io'.conn # <<>>)]_vars

\* an 'ir.ui.view' row written to a file under location 'file' is rewritten
\* under 's3': its content is in db_datas and its file went to _file_delete
C18_Witness ==
    /\ io.op = "write" /\ io.raise = NoErr /\ io.value # <<>>
    /\ env.storage = "s3"
    /\ db[io.id].res_model = "ir.ui.view"
    /\ db[io.id].db_datas = io.value /\ db[io.id].store_fname = <<>>
    /\ io.log = <<"gc">>
    /\ Exists(disk, _full_path(LocalName(_compute_checksum(
                                             b64decode(io.value)))))

-----------------------------------------------------------------------------
(* Effect of a read on the object storage, under SpecSeq. *)

\* C19: a read of any s3:// name, the name of a bucket that does not exist
\* or of the bucket of another environment included, leaves the buckets and
\* the objects of the object storage as they were.
C19_ReadLeavesStorage ==
    [][(io'.op = "read" /\ IsS3(io'.fname)) => s3' = s3]_vars

-----------------------------------------------------------------------------
(* The cursor of the row lock, under Spec. *)

\* C20: in a migration pass, with new_cr false and with new_cr true, the
\* lock of a row is held by the cursor that updates the row, inside the
\* savepoint of that row: no failed lock attempt leaves a transaction in the
\* aborted state, and the update of the pass never waits for a lock the pass
\* itself holds.
C20_LockOnUpdatingCursor ==
    \A t \in Txns :
       /\ tx[t] # "aborted"
       /\ mig[t].pc # "blocked"
       /\ mig[t].pc # "idle"
          => \A id \in mig[t].taken : lock[id] = PassCr(t)

====
